---- MODULE Spec2Model ----
(***************************************************************************)
(* IdentityCloud: identity records, trust scores and the HC escrow wallet. *)
(*                                                                         *)
(* The model follows three layers of the Go service:                       *)
(*   - the Neo4j repository (one Cypher query = one atomic transaction),   *)
(*   - the IdentityService business logic (read-then-write sequences),     *)
(*   - the gRPC IdentityServer handlers (validation and call sequences).   *)
(* Several handlers run concurrently; each step of a handler is one        *)
(* repository round-trip.                                                  *)
(***************************************************************************)
EXTENDS Integers, Sequences, FiniteSets, TLC

(***************************************************************************)
(* Bounds of the model.                                                    *)
(***************************************************************************)
MaxIds == 2          \* identities that may be created
MaxCallers == 2      \* handlers in flight at the same time
MaxWrites == 3       \* wallet writes explored in one behaviour
MaxBalance == 11     \* |balance|, in tenths of HC, kept within this
MaxNow == 31         \* the clock, in days, stops here
MaxOutcomes == 2     \* verification outcomes recorded in one behaviour
MaxLineage == 4      \* identities in a spawn forest whose lineage is read

DIDs == 1..MaxIds
Ghost == 0           \* a DID for which no identity exists
NoParent == 0 - 1    \* parent_did absent (nil)
Callers == 1..MaxCallers

\* amounts a request can carry, in tenths of HC ("-0.2", "0.2", "0.9")
AmountTenths == {0 - 2, 2, 9}

\* days added to the clock by one tick
TickDays == 31

(***************************************************************************)
(* domain constants                                                        *)
(***************************************************************************)
MaxScore == 1000
InheritedTrustPct == 30     \* InheritedTrust = 0.30
MinInheritedScore == 100    \* MinInheritedTau = 0.10, times MaxScore
ExpiryDays == 30            \* duration('P30D')
SLATargetMs == 2000
MaxVerification == 400
MaxSLA == 200

(***************************************************************************)
(* IEEE-754 binary64 arithmetic, exactly.                                  *)
(*                                                                         *)
(* The wallet queries compute toFloat(w.available) +/- $amount on doubles  *)
(* and store toString of the result.  A double x that arises here is       *)
(* written as the pair <<n, m>> with                                       *)
(*        x = n/10 + m / (10 * 2^56)                                       *)
(* n is the decimal value in tenths that exact arithmetic would give and m *)
(* is the deviation of the double from it, in units of 1/(10 * 2^56).      *)
(* Every double of magnitude >= 2^-4 is a multiple of 2^-56, so m is an    *)
(* integer, and it is small.  Rounding is round-to-nearest, ties-to-even.  *)
(* toString/toFloat and decimal.NewFromString are exact on the shortest    *)
(* representation of a double, so a stored string is modelled by the       *)
(* double it denotes.                                                      *)
(***************************************************************************)
Pow2(k) == IF k = 0 THEN 1 ELSE IF k = 1 THEN 2 ELSE IF k = 2 THEN 4
           ELSE IF k = 3 THEN 8 ELSE IF k = 4 THEN 16 ELSE IF k = 5 THEN 32
           ELSE IF k = 6 THEN 64 ELSE IF k = 7 THEN 128 ELSE IF k = 8 THEN 256
           ELSE IF k = 9 THEN 512 ELSE IF k = 10 THEN 1024 ELSE 2048

\* 2^k mod 10 for k >= 1
Pow2Mod10(k) == IF k % 4 = 0 THEN 6 ELSE IF k % 4 = 1 THEN 2
                ELSE IF k % 4 = 2 THEN 4 ELSE 8

MinBinade == 0 - 4
MaxBinade == 6

\* 160 * 2^e for e in MinBinade..MaxBinade
Thresh16(e) == IF e >= 0 THEN 160 * Pow2(e) ELSE 160 \div Pow2(0 - e)

\* 2^e <= n/10 + m/(10*2^56), for n >= 1
GeBinade(n, m, e) == \/ 16 * n > Thresh16(e)
                     \/ 16 * n = Thresh16(e) /\ m >= 0

\* the binade of a positive value with n >= 1
Binade(n, m) == CHOOSE e \in MinBinade..MaxBinade :
                   /\ GeBinade(n, m, e)
                   /\ (e = MaxBinade \/ ~GeBinade(n, m, e + 1))

\* round a positive exact value to the nearest double (ties to even)
RoundPos(n, m) ==
    LET e == Binade(n, m)
        U == 10 * Pow2(e + 4)                       \* one ulp, in units
        r == (Pow2(e + 4) * ((n * Pow2Mod10(52 - e)) % 10) + m) % U
        r2 == (Pow2(e + 5) * ((n * Pow2Mod10(51 - e)) % 10) + m) % (2 * U)
        odd == r2 >= U
    IN  IF 2 * r < U \/ (2 * r = U /\ ~odd) THEN <<n, m - r>>
        ELSE <<n, m - r + U>>

\* round an exact value to the nearest double
Round(n, m) ==
    IF n = 0 THEN <<0, m>>
    ELSE IF n < 0 THEN LET p == RoundPos(0 - n, 0 - m) IN <<0 - p[1], 0 - p[2]>>
    ELSE RoundPos(n, m)

FZero == <<0, 0>>
\* amount.Float64(): the double nearest to a decimal amount given in tenths
Float64(t) == Round(t, 0)
FAdd(a, b) == Round(a[1] + b[1], a[2] + b[2])
FSub(a, b) == Round(a[1] - b[1], a[2] - b[2])
FGe(a, b) == a[1] > b[1] \/ (a[1] = b[1] /\ a[2] >= b[2])
FLt(a, b) == ~FGe(a, b)

(***************************************************************************)
(* Trust score: pure functions                                             *)
(***************************************************************************)
\* the TrustScore node CreateIdentity creates
DefaultTrust == [score |-> 500, verification |-> 200, dispute_penalty |-> 0,
                 sla |-> 100, network |-> 200, verified_outcomes |-> 0,
                 version |-> 1]

\* the SET clause of RecordVerificationOutcome; its items are applied in
\* order, so the score is computed from the components just written
RecordOutcome(t, passed, latencyMs) ==
    LET v == IF passed
             THEN (IF t.verification < MaxVerification
                   THEN t.verification + 1 ELSE MaxVerification)
             ELSE (IF t.verification > 0 THEN t.verification - 2 ELSE 0)
        s == IF latencyMs <= SLATargetMs
             THEN (IF t.sla < MaxSLA THEN t.sla + 1 ELSE MaxSLA)
             ELSE (IF t.sla > 0 THEN t.sla - 1 ELSE 0)
    IN  [t EXCEPT !.verified_outcomes = @ + 1,
                  !.version = @ + 1,
                  !.verification = v,
                  !.sla = s,
                  !.score = v + s + t.network - t.dispute_penalty]

\* parent scores at which float64(score)/1000 * 0.30 * 1000 falls just below
\* the integer 3*score/10, so that the conversion to uint32 drops one
FloatShortfall == {380, 410, 570, 750, 760, 770, 820, 830}

\* uint32(InheritedTauForChild() * float64(MaxScore)), for a parent score in
\* 0..MaxScore: the product is truncated, and floored at MinInheritedTau
InheritedScore(score) ==
    LET scaled == (score * InheritedTrustPct) \div 100
        trunc == IF score \in FloatShortfall THEN scaled - 1 ELSE scaled
    IN  IF trunc < MinInheritedScore THEN MinInheritedScore ELSE trunc

\* uint32(float64(component) * InheritedTrust): truncation of 0.30 * component
InheritedComponent(x) == (x * InheritedTrustPct) \div 100

(***************************************************************************)
(* Wallet: pure functions                                                  *)
(***************************************************************************)
\* an IsExpired that never reports expiry
IsExpiredNever(w, t) == FALSE

\* HCWallet.IsExpired: time.Now().After(w.ExpiresAt)
IsExpired(w, t) == t > w.expires_at

\* HCWallet.CanLock: w.Available.GreaterThanOrEqual(amount) && !w.IsExpired().
\* Available is the decimal parsed from the stored string of a double; for an
\* amount in tenths the decimal comparison agrees with the comparison of the
\* doubles.
CanLock(w, amt, t) == FGe(w.available, Float64(amt)) /\ ~IsExpired(w, t)

\* LockHC's WHERE clause without the comparison of versions
LockHCMatchAnyVersion(w, amt, version, t) ==
    /\ FGe(w.available, Float64(amt))
    /\ w.expires_at > t

\* LockHC's WHERE clause accepting any version the wallet has reached
LockHCMatchReachedVersion(w, amt, version, t) ==
    /\ w.version >= version
    /\ FGe(w.available, Float64(amt))
    /\ w.expires_at > t

\* WHERE clause of LockHC
LockHCMatch(w, amt, version, t) ==
    /\ w.version = version
    /\ FGe(w.available, Float64(amt))
    /\ w.expires_at > t

\* SET clause of LockHC
LockHCSet(w, amt) ==
    [w EXCEPT !.available = FSub(@, Float64(amt)),
              !.locked = FAdd(@, Float64(amt)),
              !.version = @ + 1]

\* WHERE clause of ReleaseHC
ReleaseHCMatch(w, amt) == FGe(w.locked, Float64(amt))

\* ReleaseHC's SET clause without the increment of the version
ReleaseHCSetSameVersion(w, amt) ==
    [w EXCEPT !.locked = FSub(@, Float64(amt))]

\* SET clause of ReleaseHC
ReleaseHCSet(w, amt) ==
    [w EXCEPT !.locked = FSub(@, Float64(amt)), !.version = @ + 1]

\* WHERE clause of RefundHC
RefundHCMatch(w, amt) == FGe(w.locked, Float64(amt))

\* SET clause of RefundHC
RefundHCSet(w, amt) ==
    [w EXCEPT !.available = FAdd(@, Float64(amt)),
              !.locked = FSub(@, Float64(amt)),
              !.version = @ + 1]

\* SET clause of CreditHC
CreditHCSet(w, amt, t) ==
    [w EXCEPT !.available = FAdd(@, Float64(amt)),
              !.expires_at = IF @ < t + ExpiryDays THEN t + ExpiryDays ELSE @,
              !.version = @ + 1]

\* amount.LessThanOrEqual(decimal.Zero)
NotPositive(amt) == amt <= 0


(***************************************************************************)
(* State                                                                   *)
(***************************************************************************)
VARIABLES
    ids,      \* DIDs of the Identity nodes in the graph
    parent,   \* ids -> the DID at the source of the SPAWNED edge, or NoParent
    trust,    \* ids -> the TrustScore node
    wallet,   \* ids -> the HCWallet node
    now,      \* the clock (datetime(), time.Now()), in days
    call,     \* Callers -> the handler the caller has in flight
    resp,     \* the response most recently sent to a caller
    recorded, \* verification outcomes recorded since the initial state
    lastLock, \* history: the latest committed lock and the balances before
              \* it, while no later write has changed a wallet
    written,  \* wallet writes committed since the initial state
    ledger    \* history, when kept: the balances that the service calls
              \* answered with success add up to, in tenths of HC

vars == <<ids, parent, trust, wallet, now, call, resp, recorded, lastLock,
          written, ledger>>

Idle == [pc |-> "idle"]
NoResp == [svc |-> "none", code |-> "none"]
NoLock == [did |-> Ghost, amt |-> 0, available |-> FZero, locked |-> FZero]

\* a step that changes a wallet ends the record of the latest lock
ForgetLock == lastLock' = IF wallet' = wallet THEN lastLock ELSE NoLock

\* a query that matched a wallet is one more write
CountWrite == written' = IF wallet' = wallet THEN written ELSE written + 1

\* no history of the answers is kept
NoLedger == [on |-> FALSE,
             available |-> [d \in 0..MaxIds |-> 0],
             locked |-> [d \in 0..MaxIds |-> 0]]

\* the ledger after a service call on wallet d answered with success (it
\* returned nil): CreditHC adds amt to available, LockHCForEscrow moves amt
\* from available to locked, ReleaseHCFromEscrow takes amt from locked,
\* RefundHCFromEscrow moves amt from locked to available
Booked(op, d, amt) ==
    IF ~ledger.on THEN ledger
    ELSE [ledger EXCEPT
            !.available[d] = @ + (IF op \in {"credit", "refund"} THEN amt
                                  ELSE IF op = "lock" THEN 0 - amt ELSE 0),
            !.locked[d] = @ + (IF op = "lock" THEN amt
                               ELSE IF op \in {"release", "refund"}
                               THEN 0 - amt ELSE 0)]

\* an HCWallet node whose expiry does not follow the time of creation
DefaultWalletFixedExpiry(t) == [available |-> FZero, locked |-> FZero,
                                expires_at |-> ExpiryDays, version |-> 1]

\* the HCWallet node CreateIdentity creates at time t
DefaultWallet(t) == [available |-> FZero, locked |-> FZero,
                     expires_at |-> t + ExpiryDays, version |-> 1]

\* the generated did:key of the next identity (a fresh key each time)
NextDid == CHOOSE d \in DIDs \ ids : \A e \in DIDs \ ids : d <= e

\* the DIDs a request can name: an existing identity or an unknown DID
Targets == ids \cup {Ghost}

\* a write to the wallet value w stays within the explored range
InRange(w) == /\ written < MaxWrites
              /\ w.available[1] <= MaxBalance /\ w.available[1] >= 0 - MaxBalance
              /\ w.locked[1] <= MaxBalance /\ w.locked[1] >= 0 - MaxBalance

\* svc: the outcome of the IdentityService call that decided the response
\* ("ok" when it returned nil); code: the gRPC status of the handler
Respond(svc, code) == resp' = [svc |-> svc, code |-> code]

Finish(c) == call' = [call EXCEPT ![c] = Idle]

\* the status of a handler that ends with GetHCWallet(did)
WalletReadCode(d) == IF d \in ids THEN "OK" ELSE "Internal"

Init ==
    /\ ids = {}
    /\ parent = <<>>
    /\ trust = <<>>
    /\ wallet = <<>>
    /\ now = 0
    /\ call = [c \in Callers |-> Idle]
    /\ resp = NoResp
    /\ recorded = 0
    /\ lastLock = NoLock
    /\ written = 0
    /\ ledger = NoLedger

(***************************************************************************)
(* The clock                                                               *)
(***************************************************************************)
Tick ==
    /\ now + TickDays <= MaxNow
    /\ now' = now + TickDays
    /\ UNCHANGED <<ids, parent, trust, wallet, call, resp, recorded,
                   lastLock, written, ledger>>

(***************************************************************************)
(* CreateUnifiedID -> IdentityService.CreateIdentity                       *)
(***************************************************************************)
\* entity_type unspecified: rejected before any repository call
CreateUnifiedIDInvalid(c) ==
    /\ call[c].pc = "idle"
    /\ Respond("none", "InvalidArgument")
    /\ UNCHANGED <<ids, parent, trust, wallet, now, call, recorded,
                   lastLock, written, ledger>>

\* a CreateIdentity that creates the SPAWNED edge whether or not the parent
\* exists
CreateUnifiedIDDanglingEdge(c, p) ==
    /\ call[c].pc = "idle"
    /\ ids # DIDs
    /\ LET d == NextDid
           grow(f, v) == [x \in ids \cup {d} |-> IF x = d THEN v ELSE f[x]]
       IN  /\ ids' = ids \cup {d}
           /\ parent' = grow(parent, p)
           /\ trust' = grow(trust, DefaultTrust)
           /\ wallet' = grow(wallet, DefaultWallet(now))
           /\ IF p = NoParent
              THEN /\ Respond("ok", "OK")
                   /\ UNCHANGED call
              ELSE /\ call' = [call EXCEPT ![c] =
                          [pc |-> "inherit_parent", did |-> d, parentDid |-> p]]
                   /\ UNCHANGED resp
    /\ UNCHANGED <<now, recorded, lastLock, written, ledger>>

\* repository CreateIdentity: Identity, SPAWNED edge (if the parent exists),
\* TrustScore and HCWallet in one transaction
CreateUnifiedID(c, p) ==
    /\ call[c].pc = "idle"
    /\ ids # DIDs
    /\ LET d == NextDid
           grow(f, v) == [x \in ids \cup {d} |-> IF x = d THEN v ELSE f[x]]
       IN  /\ ids' = ids \cup {d}
           /\ parent' = grow(parent, IF p \in ids THEN p ELSE NoParent)
           /\ trust' = grow(trust, DefaultTrust)
           /\ wallet' = grow(wallet, DefaultWallet(now))
           /\ IF p = NoParent
              THEN /\ Respond("ok", "OK")
                   /\ UNCHANGED call
              ELSE /\ call' = [call EXCEPT ![c] =
                          [pc |-> "inherit_parent", did |-> d, parentDid |-> p]]
                   /\ UNCHANGED resp
    /\ UNCHANGED <<now, recorded, lastLock, written, ledger>>

\* inheritParentTrust: GetTrustScore(parentDID), with a failure that fails the
\* creation
InheritReadParentFatal(c) ==
    /\ call[c].pc = "inherit_parent"
    /\ LET p == call[c].parentDid
       IN  IF p \in ids
           THEN /\ trust[p].score >= 0 /\ trust[p].score <= MaxScore
                /\ trust[p].verification >= 0
                /\ call' = [call EXCEPT ![c] =
                       [pc |-> "inherit_child", did |-> call[c].did,
                        parentDid |-> p, parentTrust |-> trust[p]]]
                /\ UNCHANGED resp
           ELSE /\ Respond("inherit_not_found", "Internal")
                /\ Finish(c)
    /\ UNCHANGED <<ids, parent, trust, wallet, now, recorded, lastLock,
                   written, ledger>>

\* inheritParentTrust: GetTrustScore(parentDID)
InheritReadParent(c) ==
    /\ call[c].pc = "inherit_parent"
    /\ LET p == call[c].parentDid
       IN  IF p \in ids
           THEN /\ trust[p].score >= 0 /\ trust[p].score <= MaxScore
                /\ trust[p].verification >= 0
                /\ call' = [call EXCEPT ![c] =
                       [pc |-> "inherit_child", did |-> call[c].did,
                        parentDid |-> p, parentTrust |-> trust[p]]]
                /\ UNCHANGED resp
           ELSE \* the error is logged; the identity was created
                /\ Respond("inherit_not_found", "OK")
                /\ Finish(c)
    /\ UNCHANGED <<ids, parent, trust, wallet, now, recorded,
                   lastLock, written, ledger>>

\* inheritParentTrust: GetTrustScore(childDID)
InheritReadChild(c) ==
    /\ call[c].pc = "inherit_child"
    /\ call' = [call EXCEPT ![c] =
           [pc |-> "inherit_write", did |-> call[c].did,
            parentDid |-> call[c].parentDid,
            parentTrust |-> call[c].parentTrust,
            childTrust |-> trust[call[c].did]]]
    /\ UNCHANGED <<ids, parent, trust, wallet, now, resp, recorded,
                   lastLock, written, ledger>>

\* the TrustScore inheritParentTrust hands to UpdateTrustScore
InheritedTrustScore(childTrust, parentTrust) ==
    [childTrust EXCEPT
        !.score = InheritedScore(parentTrust.score),
        !.verification = InheritedComponent(parentTrust.verification),
        !.network = InheritedComponent(parentTrust.network)]

\* a WHERE clause of UpdateTrustScore that also accepts an overtaken version
UpdateTrustScoreMatchAnyVersion(t, update) == t.version >= update.version

\* WHERE clause of UpdateTrustScore
UpdateTrustScoreMatch(t, update) == t.version = update.version

\* SET clause of UpdateTrustScore
UpdateTrustScoreSet(t, update) == [update EXCEPT !.version = t.version + 1]

\* inheritParentTrust: UpdateTrustScore(childDID, childTrust)
InheritWrite(c) ==
    /\ call[c].pc = "inherit_write"
    /\ LET d == call[c].did
           update == InheritedTrustScore(call[c].childTrust, call[c].parentTrust)
       IN  IF UpdateTrustScoreMatch(trust[d], update)
           THEN /\ trust' = [trust EXCEPT ![d] = UpdateTrustScoreSet(@, update)]
                /\ Respond("ok", "OK")
           ELSE /\ trust' = trust
                /\ Respond("inherit_conflict", "OK")
    /\ Finish(c)
    /\ UNCHANGED <<ids, parent, wallet, now, recorded, lastLock, written,
                   ledger>>

(***************************************************************************)
(* Trust score handlers                                                    *)
(***************************************************************************)
\* GetTrustScore
GetTrustScore(c, d) ==
    /\ call[c].pc = "idle"
    /\ IF d \in ids
       THEN Respond("ok", "OK")
       ELSE Respond("not_found", "NotFound")
    /\ UNCHANGED <<ids, parent, trust, wallet, now, call, recorded,
                   lastLock, written, ledger>>

\* IdentityService.RecordVerificationOutcome: one query, no version presented;
\* a DID that matches nothing leaves the query without rows and without error
RecordVerificationOutcome(c, d, passed, latencyMs) ==
    /\ call[c].pc = "idle"
    /\ IF d \in ids
       THEN /\ recorded < MaxOutcomes
            /\ trust' = [trust EXCEPT ![d] = RecordOutcome(@, passed, latencyMs)]
            /\ recorded' = recorded + 1
       ELSE UNCHANGED <<trust, recorded>>
    /\ Respond("ok", "OK")
    /\ UNCHANGED <<ids, parent, wallet, now, call, lastLock, written, ledger>>

\* UpdateTrustScore: RecordVerificationOutcome(did, success, 0), then
\* GetTrustScore(did)
UpdateTrustScore(c, d, passed) ==
    /\ call[c].pc = "idle"
    /\ IF d \in ids
       THEN /\ recorded < MaxOutcomes
            /\ trust' = [trust EXCEPT ![d] = RecordOutcome(@, passed, 0)]
            /\ recorded' = recorded + 1
            /\ Respond("ok", "OK")
       ELSE /\ UNCHANGED <<trust, recorded>>
            /\ Respond("ok", "Internal")
    /\ UNCHANGED <<ids, parent, wallet, now, call, lastLock, written, ledger>>


(***************************************************************************)
(* Wallet handlers                                                         *)
(***************************************************************************)
\* GetWallet
GetWallet(c, d) ==
    /\ call[c].pc = "idle"
    /\ IF d \in ids
       THEN Respond("ok", "OK")
       ELSE Respond("not_found", "NotFound")
    /\ UNCHANGED <<ids, parent, trust, wallet, now, call, recorded,
                   lastLock, written, ledger>>

\* CreditWallet: a zero or negative amount is rejected before any repository
\* call
CreditWalletInvalid(c, amt) ==
    /\ call[c].pc = "idle"
    /\ NotPositive(amt)
    /\ Respond("none", "InvalidArgument")
    /\ UNCHANGED <<ids, parent, trust, wallet, now, call, recorded,
                   lastLock, written, ledger>>

\* DebitWallet: a zero or negative amount is rejected before any repository
\* call
DebitWalletInvalid(c, amt) ==
    /\ call[c].pc = "idle"
    /\ NotPositive(amt)
    /\ Respond("none", "InvalidArgument")
    /\ UNCHANGED <<ids, parent, trust, wallet, now, call, recorded,
                   lastLock, written, ledger>>

\* CreditWallet: CreditHC(did, amount), then GetHCWallet(did)
CreditWallet(c, d, amt) ==
    /\ call[c].pc = "idle"
    /\ ~NotPositive(amt)
    /\ IF d \in ids
       THEN /\ InRange(CreditHCSet(wallet[d], amt, now))
            /\ wallet' = [wallet EXCEPT ![d] = CreditHCSet(@, amt, now)]
       ELSE wallet' = wallet
    /\ Respond("ok", WalletReadCode(d))
    /\ ForgetLock
    /\ CountWrite
    /\ ledger' = Booked("credit", d, amt)
    /\ UNCHANGED <<ids, parent, trust, now, call, recorded>>

\* LockHCForEscrow up to the call of LockHC: GetHCWallet, IsExpired, CanLock.
\* op is the handler that called it (LockWallet or DebitWallet).
LockHCForEscrowRead(c, op, d, amt) ==
    /\ call[c].pc = "idle"
    /\ IF d \notin ids
       THEN /\ Respond("not_found", "FailedPrecondition")
            /\ UNCHANGED call
       ELSE IF IsExpired(wallet[d], now)
       THEN /\ Respond("wallet_expired", "FailedPrecondition")
            /\ UNCHANGED call
       ELSE IF ~CanLock(wallet[d], amt, now)
       THEN /\ Respond("insufficient_balance", "FailedPrecondition")
            /\ UNCHANGED call
       ELSE /\ call' = [call EXCEPT ![c] =
                   [pc |-> "lock_write", op |-> op, did |-> d, amt |-> amt,
                    version |-> wallet[d].version]]
            /\ UNCHANGED resp
    /\ UNCHANGED <<ids, parent, trust, wallet, now, recorded,
                   lastLock, written, ledger>>

\* LockWallet: the amount is parsed but not compared with zero
LockWallet(c, d, amt) == LockHCForEscrowRead(c, "LockWallet", d, amt)

\* DebitWallet, after the amount was found positive
DebitWallet(c, d, amt) ==
    /\ ~NotPositive(amt)
    /\ LockHCForEscrowRead(c, "DebitWallet", d, amt)

\* LockHCForEscrow: LockHC(did, amount, wallet.Version)
LockHCWrite(c) ==
    /\ call[c].pc = "lock_write"
    /\ LET d == call[c].did
           amt == call[c].amt
       IN  IF LockHCMatch(wallet[d], amt, call[c].version, now)
           THEN /\ InRange(LockHCSet(wallet[d], amt))
                /\ wallet' = [wallet EXCEPT ![d] = LockHCSet(@, amt)]
                /\ lastLock' = [did |-> d, amt |-> amt,
                                available |-> wallet[d].available,
                                locked |-> wallet[d].locked]
                /\ IF call[c].op = "DebitWallet"
                   THEN /\ call' = [call EXCEPT ![c] =
                               [pc |-> "debit_release", did |-> d, amt |-> amt]]
                        /\ UNCHANGED resp
                   ELSE /\ Respond("ok", "OK")
                        /\ Finish(c)
           ELSE /\ wallet' = wallet
                /\ lastLock' = lastLock
                /\ Respond("insufficient_or_concurrent",
                           "FailedPrecondition")
                /\ Finish(c)
    /\ CountWrite
    /\ ledger' = IF wallet' # wallet
                 THEN Booked("lock", call[c].did, call[c].amt) ELSE ledger
    /\ UNCHANGED <<ids, parent, trust, now, recorded>>

\* ReleaseHC as a step on the stored wallets: no row, no change and no error
ReleaseHC(d, amt) ==
    IF d \in ids /\ ReleaseHCMatch(wallet[d], amt)
    THEN /\ InRange(ReleaseHCSet(wallet[d], amt))
         /\ wallet' = [wallet EXCEPT ![d] = ReleaseHCSet(@, amt)]
    ELSE wallet' = wallet

\* DebitWallet: ReleaseHCFromEscrow(did, amount), then GetHCWallet(did)
DebitRelease(c) ==
    /\ call[c].pc = "debit_release"
    /\ ReleaseHC(call[c].did, call[c].amt)
    /\ Respond("ok", "OK")
    /\ Finish(c)
    /\ ForgetLock
    /\ CountWrite
    /\ ledger' = Booked("release", call[c].did, call[c].amt)
    /\ UNCHANGED <<ids, parent, trust, now, recorded>>

\* ReleaseWallet without target: RefundHCFromEscrow, then GetHCWallet(did)
ReleaseWalletRefund(c, d, amt) ==
    /\ call[c].pc = "idle"
    /\ IF d \in ids /\ RefundHCMatch(wallet[d], amt)
       THEN /\ InRange(RefundHCSet(wallet[d], amt))
            /\ wallet' = [wallet EXCEPT ![d] = RefundHCSet(@, amt)]
       ELSE wallet' = wallet
    /\ Respond("ok", WalletReadCode(d))
    /\ ForgetLock
    /\ CountWrite
    /\ ledger' = Booked("refund", d, amt)
    /\ UNCHANGED <<ids, parent, trust, now, call, recorded>>

\* ReleaseWallet with target: ReleaseHCFromEscrow(did, amount)
ReleaseWalletTransfer(c, d, amt, target) ==
    /\ call[c].pc = "idle"
    /\ ReleaseHC(d, amt)
    /\ call' = [call EXCEPT ![c] =
           [pc |-> "transfer_credit", did |-> d, amt |-> amt,
            target |-> target]]
    /\ ForgetLock
    /\ CountWrite
    /\ ledger' = Booked("release", d, amt)
    /\ UNCHANGED <<ids, parent, trust, now, resp, recorded>>

\* ReleaseWallet with target, crediting the source in place of the target
TransferCreditSource(c) ==
    /\ call[c].pc = "transfer_credit"
    /\ LET t == call[c].did
           amt == call[c].amt
       IN  IF t \in ids
           THEN /\ InRange(CreditHCSet(wallet[t], amt, now))
                /\ wallet' = [wallet EXCEPT ![t] = CreditHCSet(@, amt, now)]
           ELSE wallet' = wallet
    /\ Respond("ok", WalletReadCode(call[c].did))
    /\ Finish(c)
    /\ ForgetLock
    /\ CountWrite
    /\ ledger' = Booked("credit", call[c].did, call[c].amt)
    /\ UNCHANGED <<ids, parent, trust, now, recorded>>

\* ReleaseWallet with target: CreditHC(target, amount), then GetHCWallet(did)
TransferCredit(c) ==
    /\ call[c].pc = "transfer_credit"
    /\ LET t == call[c].target
           amt == call[c].amt
       IN  IF t \in ids
           THEN /\ InRange(CreditHCSet(wallet[t], amt, now))
                /\ wallet' = [wallet EXCEPT ![t] = CreditHCSet(@, amt, now)]
           ELSE wallet' = wallet
    /\ Respond("ok", WalletReadCode(call[c].did))
    /\ Finish(c)
    /\ ForgetLock
    /\ CountWrite
    /\ ledger' = Booked("credit", call[c].target, call[c].amt)
    /\ UNCHANGED <<ids, parent, trust, now, recorded>>

(***************************************************************************)
(* Repository writes that present a version, called again after a rejection *)
(***************************************************************************)
\* the error LockHC returns when its query matches no row
LockHCRejected == [svc |-> "insufficient_or_concurrent",
                   code |-> "FailedPrecondition"]

\* the error UpdateTrustScore returns when its query matches no row; no
\* handler turns it into a status
UpdateTrustScoreRejected == [svc |-> "concurrent_modification",
                             code |-> "none"]

\* repository LockHC(did, amount, version) with a version the wallet has or
\* had; a rejected call keeps its arguments for a retry
LockHC(c, d, amt, version) ==
    /\ call[c].pc = "idle"
    /\ d \in ids
    /\ version \in 1..wallet[d].version
    /\ IF LockHCMatch(wallet[d], amt, version, now)
       THEN /\ InRange(LockHCSet(wallet[d], amt))
            /\ wallet' = [wallet EXCEPT ![d] = LockHCSet(@, amt)]
            /\ lastLock' = [did |-> d, amt |-> amt,
                            available |-> wallet[d].available,
                            locked |-> wallet[d].locked]
            /\ Respond("ok", "OK")
            /\ UNCHANGED call
       ELSE /\ wallet' = wallet
            /\ lastLock' = lastLock
            /\ resp' = LockHCRejected
            /\ call' = [call EXCEPT ![c] =
                   [pc |-> "lock_rejected", did |-> d, amt |-> amt,
                    version |-> version]]
    /\ CountWrite
    /\ ledger' = IF wallet' # wallet THEN Booked("lock", d, amt) ELSE ledger
    /\ UNCHANGED <<ids, parent, trust, now, recorded>>

\* the rejected LockHC called again with the same arguments
LockHCReplay(c) ==
    /\ call[c].pc = "lock_rejected"
    /\ LET d == call[c].did
           amt == call[c].amt
       IN  IF LockHCMatch(wallet[d], amt, call[c].version, now)
           THEN /\ InRange(LockHCSet(wallet[d], amt))
                /\ wallet' = [wallet EXCEPT ![d] = LockHCSet(@, amt)]
                /\ lastLock' = [did |-> d, amt |-> amt,
                                available |-> wallet[d].available,
                                locked |-> wallet[d].locked]
                /\ Respond("ok", "OK")
                /\ Finish(c)
           ELSE /\ wallet' = wallet
                /\ lastLock' = lastLock
                /\ resp' = LockHCRejected
                /\ UNCHANGED call
    /\ CountWrite
    /\ ledger' = IF wallet' # wallet
                 THEN Booked("lock", call[c].did, call[c].amt) ELSE ledger
    /\ UNCHANGED <<ids, parent, trust, now, recorded>>

\* after a rejection the caller reads the wallet again (GetHCWallet) and is
\* about to call LockHC with the version just read
LockHCReread(c) ==
    /\ call[c].pc = "lock_rejected"
    /\ call' = [call EXCEPT ![c] =
           [pc |-> "lock_write", op |-> "LockWallet", did |-> call[c].did,
            amt |-> call[c].amt, version |-> wallet[call[c].did].version]]
    /\ UNCHANGED <<ids, parent, trust, wallet, now, resp, recorded,
                   lastLock, written, ledger>>

\* the update inheritParentTrust built from a child score read at a version
\* that has since been replaced, handed to repository UpdateTrustScore
StaleUpdateTrustScore(c, d, version) ==
    /\ call[c].pc = "idle"
    /\ d \in ids
    /\ version \in 1..(trust[d].version - 1)
    /\ LET update == [trust[d] EXCEPT !.version = version]
       IN  IF UpdateTrustScoreMatch(trust[d], update)
           THEN /\ trust' = [trust EXCEPT ![d] = UpdateTrustScoreSet(@, update)]
                /\ Respond("ok", "OK")
                /\ UNCHANGED call
           ELSE /\ trust' = trust
                /\ resp' = UpdateTrustScoreRejected
                /\ call' = [call EXCEPT ![c] =
                       [pc |-> "update_rejected", did |-> d,
                        update |-> update]]
    /\ UNCHANGED <<ids, parent, wallet, now, recorded, lastLock, written,
                   ledger>>

\* the rejected UpdateTrustScore called again with the same update
UpdateTrustScoreReplay(c) ==
    /\ call[c].pc = "update_rejected"
    /\ LET d == call[c].did
           update == call[c].update
       IN  IF UpdateTrustScoreMatch(trust[d], update)
           THEN /\ trust' = [trust EXCEPT ![d] = UpdateTrustScoreSet(@, update)]
                /\ Respond("ok", "OK")
                /\ Finish(c)
           ELSE /\ trust' = trust
                /\ resp' = UpdateTrustScoreRejected
                /\ UNCHANGED call
    /\ UNCHANGED <<ids, parent, wallet, now, recorded, lastLock, written,
                   ledger>>

\* the caller gives up the rejected write
Abandon(c) ==
    /\ call[c].pc \in {"lock_rejected", "update_rejected"}
    /\ Finish(c)
    /\ UNCHANGED <<ids, parent, trust, wallet, now, resp, recorded,
                   lastLock, written, ledger>>

(***************************************************************************)
(* Specification                                                           *)
(***************************************************************************)
\* one step of a wallet handler of caller c
WalletStep(c) ==
    \/ \E d \in Targets : GetWallet(c, d)
    \/ \E amt \in AmountTenths : CreditWalletInvalid(c, amt)
    \/ \E amt \in AmountTenths : DebitWalletInvalid(c, amt)
    \/ \E d \in Targets, amt \in AmountTenths : CreditWallet(c, d, amt)
    \/ \E d \in Targets, amt \in AmountTenths : LockWallet(c, d, amt)
    \/ \E d \in Targets, amt \in AmountTenths : DebitWallet(c, d, amt)
    \/ LockHCWrite(c)
    \/ DebitRelease(c)
    \/ \E d \in Targets, amt \in AmountTenths : ReleaseWalletRefund(c, d, amt)
    \/ \E d \in Targets, amt \in AmountTenths, target \in Targets :
          ReleaseWalletTransfer(c, d, amt, target)
    \/ TransferCredit(c)

\* the wallet handlers, over identities created without a parent
NextWallet ==
    \/ Tick
    \/ \E c \in Callers : CreateUnifiedID(c, NoParent)
    \/ \E c \in Callers : WalletStep(c)

\* the wallet handlers called one at a time, over several wallets
NextLedger ==
    \/ Tick
    \/ CreateUnifiedID(1, NoParent)
    \/ WalletStep(1)

\* the wallet handlers called concurrently on one wallet
NextEscrow ==
    \/ ids = {} /\ \E c \in Callers : CreateUnifiedID(c, NoParent)
    \/ \E c \in Callers : WalletStep(c)

\* lock requests racing on one wallet, among credits and refunds
NextLock ==
    \/ ids = {} /\ \E c \in Callers : CreateUnifiedID(c, NoParent)
    \/ \E c \in Callers, d \in Targets, amt \in AmountTenths :
          CreditWallet(c, d, amt)
    \/ \E c \in Callers, d \in Targets, amt \in AmountTenths :
          LockWallet(c, d, amt)
    \/ \E c \in Callers : LockHCWrite(c)
    \/ \E c \in Callers, d \in Targets, amt \in AmountTenths :
          ReleaseWalletRefund(c, d, amt)

\* identity creation with trust inheritance, and the trust score handlers
NextTrust ==
    \/ \E c \in Callers : CreateUnifiedIDInvalid(c)
    \/ \E c \in Callers, p \in Targets \cup {NoParent} : CreateUnifiedID(c, p)
    \/ \E c \in Callers : InheritReadParent(c)
    \/ \E c \in Callers : InheritReadChild(c)
    \/ \E c \in Callers : InheritWrite(c)
    \/ \E c \in Callers, d \in Targets : GetTrustScore(c, d)
    \/ \E c \in Callers, d \in Targets, passed \in BOOLEAN,
          latencyMs \in {0, SLATargetMs + 1} :
             RecordVerificationOutcome(c, d, passed, latencyMs)
    \/ \E c \in Callers, d \in Targets, passed \in BOOLEAN :
             UpdateTrustScore(c, d, passed)

\* one step of an identity or trust handler of caller c
TrustStep(c) ==
    \/ CreateUnifiedIDInvalid(c)
    \/ \E p \in Targets \cup {NoParent} : CreateUnifiedID(c, p)
    \/ InheritReadParent(c)
    \/ InheritReadChild(c)
    \/ InheritWrite(c)
    \/ \E d \in Targets : GetTrustScore(c, d)
    \/ \E d \in Targets, passed \in BOOLEAN,
          latencyMs \in {0, SLATargetMs + 1} :
             RecordVerificationOutcome(c, d, passed, latencyMs)
    \/ \E d \in Targets, passed \in BOOLEAN : UpdateTrustScore(c, d, passed)

\* an identity is spawned by caller 1 while other callers record outcomes
NextSpawn ==
    \/ \E p \in Targets \cup {NoParent} : CreateUnifiedID(1, p)
    \/ InheritReadParent(1)
    \/ InheritReadChild(1)
    \/ InheritWrite(1)
    \/ \E c \in Callers \ {1}, d \in Targets, passed \in BOOLEAN,
          latencyMs \in {0, SLATargetMs + 1} :
             RecordVerificationOutcome(c, d, passed, latencyMs)
    \/ \E c \in Callers \ {1}, d \in Targets : GetTrustScore(c, d)

\* the wallet handlers called one at a time on one wallet, as time passes
NextSolo ==
    \/ Tick
    \/ ids = {} /\ CreateUnifiedID(1, NoParent)
    \/ WalletStep(1)

\* both aggregates under concurrent requests, in behaviours that write to one
\* kind of aggregate: trust scores of several identities while no wallet was
\* written, or the wallet of a single identity while no outcome was recorded
NextAggregates ==
    \/ written = 0 /\ \E c \in Callers : TrustStep(c)
    \/ recorded = 0 /\ ids = {1} /\ \E c \in Callers : WalletStep(c)

\* identities created with and without parent by concurrent callers, as
\* time passes, and read by other requests
NextBirth ==
    \/ Tick
    \/ \E c \in Callers, p \in Targets \cup {NoParent} : CreateUnifiedID(c, p)
    \/ \E c \in Callers : InheritReadParent(c)
    \/ \E c \in Callers : InheritReadChild(c)
    \/ \E c \in Callers : InheritWrite(c)
    \/ \E c \in Callers, d \in Targets : GetTrustScore(c, d)
    \/ \E c \in Callers, d \in Targets : GetWallet(c, d)

\* the retried writes of caller 1 on one wallet, while caller 2 credits and
\* refunds
WalletReplayStep ==
    \/ \E amt \in AmountTenths : amt > 0 /\ LockWallet(1, 1, amt)
    \/ LockHCWrite(1)
    \/ \E amt \in AmountTenths, version \in 1..(MaxWrites + 1) :
          amt > 0 /\ LockHC(1, 1, amt, version)
    \/ LockHCReplay(1)
    \/ LockHCReread(1)
    \/ \E amt \in AmountTenths : amt > 0 /\ CreditWallet(2, 1, amt)
    \/ \E amt \in AmountTenths : amt > 0 /\ ReleaseWalletRefund(2, 1, amt)

\* the retried trust score writes of caller 1, while caller 2 records
\* verification outcomes
TrustReplayStep ==
    \/ InheritReadParent(1) \/ InheritReadChild(1) \/ InheritWrite(1)
    \/ \E d \in ids, version \in 1..(MaxOutcomes + 1) :
          StaleUpdateTrustScore(1, d, version)
    \/ UpdateTrustScoreReplay(1)
    \/ \E d \in ids, passed \in BOOLEAN :
          RecordVerificationOutcome(2, d, passed, 0)

\* caller 1 presents versions (locks, inheritance, retries of rejected
\* writes) while caller 2 writes without version, as time passes; a
\* behaviour writes to one kind of aggregate: the wallet of a single
\* identity, or trust scores
NextReplay ==
    \/ Tick
    \/ \E p \in Targets \cup {NoParent} : CreateUnifiedID(1, p)
    \/ Abandon(1)
    \/ recorded = 0 /\ ids = {1} /\ WalletReplayStep
    \/ written = 0 /\ now = 0 /\ TrustReplayStep

Next == NextWallet \/ NextTrust

Spec == Init /\ [][Next]_vars

\* the escrow wallet ledger on its own
SpecWallet == Init /\ [][NextWallet]_vars

\* sequential use of the ledger
SpecLedger == Init /\ [][NextLedger]_vars

\* concurrent use of one wallet
SpecEscrow == Init /\ [][NextEscrow]_vars

\* concurrent locks on one wallet
SpecLock == Init /\ [][NextLock]_vars

\* spawning under concurrent outcomes
SpecSpawn == Init /\ [][NextSpawn]_vars

\* sequential use of one wallet
SpecSolo == Init /\ [][NextSolo]_vars

\* trust scores and wallets, one kind written per behaviour
SpecAggregates == Init /\ [][NextAggregates]_vars

\* the trust score engine on its own
SpecTrust == Init /\ [][NextTrust]_vars

SpecBirth == Init /\ [][NextBirth]_vars

SpecReplay == Init /\ [][NextReplay]_vars

(***************************************************************************)
(* A store that already holds one identity with a history of verification  *)
(* outcomes: the state reached from Init by CreateUnifiedID and then        *)
(* `fails` failed outcomes followed by `passes` passed ones, all with the   *)
(* same latency.                                                           *)
(***************************************************************************)
\* k outcomes recorded one after the other, by halves; each half is computed
\* (its version read) before the next one starts from it
RECURSIVE Replay(_, _, _, _)
Replay(t, k, passed, latencyMs) ==
    IF k = 0 THEN t
    ELSE LET half == Replay(t, k \div 2, passed, latencyMs)
             rest == k - (k \div 2)
         IN  IF half.version >= t.version
             THEN (IF rest = 1 THEN RecordOutcome(half, passed, latencyMs)
                   ELSE Replay(half, rest, passed, latencyMs))
             ELSE t

\* prior histories: none; down to the floor; one up from the floor; up to
\* the cap
PriorHistories == {<<0, 0>>, <<100, 0>>, <<100, 1>>, <<0, 199>>}

InitSeeded ==
    /\ ids = {1}
    /\ parent = [d \in {1} |-> NoParent]
    /\ \E h \in PriorHistories, latencyMs \in {0, SLATargetMs + 1} :
          trust = [d \in {1} |->
                     Replay(Replay(DefaultTrust, h[1], FALSE, latencyMs),
                            h[2], TRUE, latencyMs)]
    /\ wallet = [d \in {1} |-> DefaultWallet(0)]
    /\ now = 0
    /\ call = [c \in Callers |-> Idle]
    /\ resp = NoResp
    /\ recorded = 0
    /\ lastLock = NoLock
    /\ written = 0
    /\ ledger = NoLedger

\* the trust score engine on a store with history
SpecTrustSeeded == InitSeeded /\ [][NextTrust]_vars

(***************************************************************************)
(* A store that already holds one identity whose wallet has a history: the *)
(* state reached from Init by CreateUnifiedID, CreditWallet 0.9,           *)
(* LockWallet 0.9 and CreditWallet 0.2, all at time 0.                     *)
(***************************************************************************)
FundedWallet ==
    CreditHCSet(LockHCSet(CreditHCSet(DefaultWallet(0), 9, 0), 9), 2, 0)

InitFunded ==
    /\ ids = {1}
    /\ parent = [d \in {1} |-> NoParent]
    /\ trust = [d \in {1} |-> DefaultTrust]
    /\ wallet = [d \in {1} |-> FundedWallet]
    /\ now = 0
    /\ call = [c \in Callers |-> Idle]
    /\ resp = NoResp
    /\ recorded = 0
    /\ lastLock = NoLock
    /\ written = 0
    /\ ledger = NoLedger

\* the wallet handlers called one at a time on the wallet with history
NextFunded ==
    \/ Tick
    \/ WalletStep(1)

SpecFunded == InitFunded /\ [][NextFunded]_vars

\* lock, release (with and without target) and debit requests of positive
\* amounts on a funded wallet, with no CreditWallet request
NextConserve ==
    \/ \E c \in Callers, amt \in AmountTenths :
          amt > 0 /\ LockWallet(c, 1, amt)
    \/ \E c \in Callers, amt \in AmountTenths :
          amt > 0 /\ DebitWallet(c, 1, amt)
    \/ \E c \in Callers : LockHCWrite(c)
    \/ \E c \in Callers : DebitRelease(c)
    \/ \E c \in Callers, amt \in AmountTenths :
          amt > 0 /\ ReleaseWalletRefund(c, 1, amt)
    \/ \E c \in Callers, amt \in AmountTenths, target \in Targets :
          amt > 0 /\ ReleaseWalletTransfer(c, 1, amt, target)
    \/ \E c \in Callers : TransferCredit(c)

SpecConserve == InitFunded /\ [][NextConserve]_vars

\* the amount of the wallet requests made while identities are spawned
FrameAmount == CHOOSE amt \in AmountTenths : amt > 0 /\ amt < 9

\* caller 1 creates identities, with and without a parent, while caller 2
\* records outcomes and moves an amount on the wallets
NextFrame ==
    \/ \E p \in Targets \cup {NoParent} : CreateUnifiedID(1, p)
    \/ InheritReadParent(1)
    \/ InheritReadChild(1)
    \/ InheritWrite(1)
    \/ \E d \in Targets, passed \in BOOLEAN :
          RecordVerificationOutcome(2, d, passed, 0)
    \/ \E d \in Targets : CreditWallet(2, d, FrameAmount)
    \/ \E d \in Targets : LockWallet(2, d, FrameAmount)
    \/ \E d \in Targets : DebitWallet(2, d, FrameAmount)
    \/ \E d \in Targets : ReleaseWalletRefund(2, d, FrameAmount)
    \/ \E d \in Targets, target \in Targets :
          ReleaseWalletTransfer(2, d, FrameAmount, target)
    \/ LockHCWrite(2)
    \/ DebitRelease(2)
    \/ TransferCredit(2)

SpecFrame == Init /\ [][NextFrame]_vars

\* one wallet, with the history of the answers kept
InitRace ==
    /\ ids = {1}
    /\ parent = [d \in {1} |-> NoParent]
    /\ trust = [d \in {1} |-> DefaultTrust]
    /\ wallet = [d \in {1} |-> DefaultWallet(0)]
    /\ now = 0
    /\ call = [c \in Callers |-> Idle]
    /\ resp = NoResp
    /\ recorded = 0
    /\ lastLock = NoLock
    /\ written = 0
    /\ ledger = [NoLedger EXCEPT !.on = TRUE]

\* concurrent credit, lock, debit, refund and release requests of positive
\* amounts on one wallet; a refund or a release is requested only while
\* locked covers its amount
NextRace ==
    \/ \E c \in Callers, amt \in AmountTenths :
          amt > 0 /\ CreditWallet(c, 1, amt)
    \/ \E c \in Callers, amt \in AmountTenths :
          amt > 0 /\ LockWallet(c, 1, amt)
    \/ \E c \in Callers, amt \in AmountTenths :
          amt > 0 /\ DebitWallet(c, 1, amt)
    \/ \E c \in Callers : LockHCWrite(c)
    \/ \E c \in Callers : DebitRelease(c)
    \/ \E c \in Callers, amt \in AmountTenths :
          /\ amt > 0
          /\ FGe(wallet[1].locked, Float64(amt))
          /\ ReleaseWalletRefund(c, 1, amt)
    \/ \E c \in Callers, amt \in AmountTenths :
          /\ amt > 0
          /\ FGe(wallet[1].locked, Float64(amt))
          /\ ReleaseWalletTransfer(c, 1, amt, Ghost)
    \/ \E c \in Callers : TransferCredit(c)

SpecRace == InitRace /\ [][NextRace]_vars

(***************************************************************************)
(* Lineage: GetAgentLineage and ResolveLineage over the SPAWNED edges       *)
(***************************************************************************)
\* nodes(path) of the path (root)-[:SPAWNED*0..]->(agent) whose root has no
\* incoming SPAWNED edge: the DIDs from the root down to d
RECURSIVE PathFromRoot(_, _)
PathFromRoot(par, d) ==
    IF par[d] = NoParent THEN <<d>>
    ELSE Append(PathFromRoot(par, par[d]), d)

\* an AgentLineage that takes the immediate parent for the root
AgentLineageParentAsRoot(par, d) ==
    LET path == PathFromRoot(par, d)
    IN  [agent_did |-> d,
         parent_did |-> par[d],
         root_did |-> IF par[d] = NoParent THEN d ELSE par[d],
         depth |-> Len(path) - 1,
         ancestors |-> path]

\* the AgentLineage GetAgentLineage builds from the row of its query
AgentLineage(par, d) ==
    LET path == PathFromRoot(par, d)
    IN  [agent_did |-> d,
         parent_did |-> par[d],
         root_did |-> path[1],
         depth |-> Len(path) - 1,
         ancestors |-> path]

NoLineage == [agent_did |-> Ghost, parent_did |-> NoParent, root_did |-> Ghost,
              depth |-> 0, ancestors |-> <<>>]

\* the response of ResolveLineage: the queried identity with factor 1.0, then
\* lineage.Ancestors in their order, the i-th with the factor multiplied
\* i - 1 times by InheritedTrust; a factor 0.30^k is written as its exponent k
LineageView(lineage) ==
    <<[did |-> lineage.agent_did, exponent |-> 0]>>
    \o [i \in 1..Len(lineage.ancestors) |->
          [did |-> lineage.ancestors[i], exponent |-> i]]

\* IdentityService.GetAgentLineage
GetAgentLineage(c, d) ==
    /\ call[c].pc = "idle"
    /\ resp' = IF d \in ids
               THEN [svc |-> "ok", code |-> "OK", did |-> d,
                     lineage |-> AgentLineage(parent, d), view |-> <<>>]
               ELSE [svc |-> "not_found", code |-> "NotFound", did |-> d,
                     lineage |-> NoLineage, view |-> <<>>]
    /\ UNCHANGED <<ids, parent, trust, wallet, now, call, recorded,
                   lastLock, written, ledger>>

\* ResolveLineage: GetAgentLineage, GetIdentity of the queried identity, then
\* GetIdentity of every entry of lineage.Ancestors; identities and SPAWNED
\* edges are never removed, so the reads see the same path
ResolveLineage(c, d) ==
    /\ call[c].pc = "idle"
    /\ resp' = IF d \in ids
               THEN [svc |-> "ok", code |-> "OK", did |-> d,
                     lineage |-> AgentLineage(parent, d),
                     view |-> LineageView(AgentLineage(parent, d))]
               ELSE [svc |-> "not_found", code |-> "NotFound", did |-> d,
                     lineage |-> NoLineage, view |-> <<>>]
    /\ UNCHANGED <<ids, parent, trust, wallet, now, call, recorded,
                   lastLock, written, ledger>>

\* the spawn forests CreateIdentity can have built over 1..MaxLineage, DIDs
\* numbered in the order of creation: the parent of an identity, if any, was
\* created before it
SpawnForests ==
    {par \in [1..MaxLineage -> {NoParent} \cup (1..MaxLineage)] :
        \A d \in 1..MaxLineage : par[d] < d}

InitLineage ==
    /\ ids = 1..MaxLineage
    /\ parent \in SpawnForests
    /\ trust = [d \in ids |-> DefaultTrust]
    /\ wallet = [d \in ids |-> DefaultWallet(0)]
    /\ now = 0
    /\ call = [c \in Callers |-> Idle]
    /\ resp = NoResp
    /\ recorded = 0
    /\ lastLock = NoLock
    /\ written = 0
    /\ ledger = NoLedger

NextLineage ==
    \/ \E c \in Callers, d \in Targets : GetAgentLineage(c, d)
    \/ \E c \in Callers, d \in Targets : ResolveLineage(c, d)

\* the lineage queries on every spawn forest of MaxLineage identities
SpecLineage == InitLineage /\ [][NextLineage]_vars

TypeOK ==
    /\ ids \subseteq DIDs
    /\ now \in 0..MaxNow
    /\ recorded \in 0..MaxOutcomes


(***************************************************************************)
(* Properties                                                              *)
(***************************************************************************)
PositiveAmounts == {amt \in AmountTenths : amt > 0}

\* the double is the one nearest to a decimal number of tenths, so that its
\* stored string is that decimal
IsTenths(x) == x = Float64(x[1])

\* C1: in every reachable state every wallet has available >= 0 and
\* locked >= 0.
C1_BalancesNonNegative ==
    \A d \in ids : /\ FGe(wallet[d].available, FZero)
                   /\ FGe(wallet[d].locked, FZero)

\* C2: a write to an aggregate commits only if the stored version still
\* equals the version its invocation read and presented: every step that
\* advances a wallet's version is the write of an invocation that holds that
\* wallet's current version.
C2_CommitPresentsVersionRead ==
    [][\A d \in ids :
          (d \in DOMAIN wallet' /\ wallet'[d].version # wallet[d].version)
          => \E c \in Callers : /\ call[c].pc = "lock_write"
                                /\ call'[c].pc # "lock_write"
                                /\ call[c].did = d
                                /\ call[c].version = wallet[d].version]_vars

\* C3: a lock that carries a version older than the stored one is rejected
\* and leaves available, locked and version as the other caller's commit left
\* them, also when available still covers its amount.
C3_StaleLockRejected ==
    [][\A c \in Callers :
          ( /\ call[c].pc = "lock_write"
            /\ call[c].version # wallet[call[c].did].version
            /\ LockHCWrite(c) )
          => /\ wallet' = wallet
             /\ resp'.svc = "insufficient_or_concurrent"
             /\ resp'.code = "FailedPrecondition"]_vars

\* C3, its case: a lock was rejected while the wallet, changed by another
\* caller's committed lock, still covers every amount a lock can ask for.
C3_Witness ==
    /\ resp.svc = "insufficient_or_concurrent"
    /\ \E d \in ids : /\ lastLock.did = d
                      /\ FGe(wallet[d].locked, Float64(2))
                      /\ \A amt \in AmountTenths :
                            FGe(wallet[d].available, Float64(amt))

\* C4: every stored trust score has
\* score = verification + sla + network - dispute_penalty.
C4_ScoreIsSumOfComponents ==
    \A d \in ids :
        trust[d].score = trust[d].verification + trust[d].sla
                         + trust[d].network - trust[d].dispute_penalty

\* C5: every stored trust score has verification in 0..400, dispute_penalty
\* in 0..200, sla in 0..200, network in 0..200 and score in 0..1000.
C5_ComponentsWithinBounds ==
    \A d \in ids :
        /\ trust[d].verification \in 0..MaxVerification
        /\ trust[d].dispute_penalty \in 0..200
        /\ trust[d].sla \in 0..MaxSLA
        /\ trust[d].network \in 0..200
        /\ trust[d].score \in 0..MaxScore

\* C6: a wallet handler called with a zero or negative amount answers
\* InvalidArgument at once: it makes no repository call, stays out of flight
\* and leaves every wallet unchanged.
C6_NonPositiveAmountRejected ==
    [][\A c \in Callers, d \in ids, amt \in AmountTenths :
          ( /\ NotPositive(amt)
            /\ \/ CreditWalletInvalid(c, amt)
               \/ DebitWalletInvalid(c, amt)
               \/ LockWallet(c, d, amt)
               \/ ReleaseWalletRefund(c, d, amt)
               \/ \E target \in Targets :
                     ReleaseWalletTransfer(c, d, amt, target) )
          => /\ resp'.code = "InvalidArgument"
             /\ call'[c].pc = "idle"
             /\ wallet' = wallet]_vars

\* C7: a release or a refund of more than is locked reports a failure and
\* leaves the wallet unchanged: the refund's response is not a success, and
\* the handler that releases does not go on to its next step.
C7_OverReleaseFails ==
    [][\A c \in Callers, d \in ids, amt \in PositiveAmounts :
          FLt(wallet[d].locked, Float64(amt))
          => /\ ReleaseWalletRefund(c, d, amt)
                => (resp'.svc # "ok" /\ wallet' = wallet)
             /\ (\E target \in Targets :
                    ReleaseWalletTransfer(c, d, amt, target))
                => (call'[c].pc = "idle" /\ resp'.svc # "ok"
                    /\ wallet' = wallet)]_vars

\* C8: a wallet operation on a DID without identity fails with not_found,
\* reports no success and changes no state.
C8_UnknownDidNotFound ==
    [][\A c \in Callers, amt \in PositiveAmounts :
          ( \/ GetWallet(c, Ghost)
            \/ LockWallet(c, Ghost, amt)
            \/ CreditWallet(c, Ghost, amt)
            \/ ReleaseWalletRefund(c, Ghost, amt) )
          => /\ resp'.svc = "not_found"
             /\ wallet' = wallet /\ trust' = trust]_vars

\* C9: a lock of a positive amount commits only on a wallet that is not
\* expired and covers the amount, and then available' = available - amount,
\* locked' = locked + amount and version' = version + 1, in exact decimal
\* arithmetic (stated for balances that are decimal numbers of tenths); a
\* lock that does not commit leaves the wallet unchanged.
C9_LockEffect ==
    [][\A c \in Callers :
          ( /\ call[c].pc = "lock_write"
            /\ call[c].amt > 0
            /\ LockHCWrite(c) )
          => LET d == call[c].did
                 amt == call[c].amt
                 w == wallet[d]
             IN  \/ wallet' = wallet
                 \/ /\ ~IsExpired(w, now)
                    /\ FGe(w.available, Float64(amt))
                    /\ wallet'[d].version = w.version + 1
                    /\ (IsTenths(w.available) /\ IsTenths(w.locked))
                       => /\ wallet'[d].available
                               = Float64(w.available[1] - amt)
                          /\ wallet'[d].locked
                               = Float64(w.locked[1] + amt)]_vars

\* C10: a refund of x that follows a lock of x, with no other write in
\* between, restores available and locked to their values before the lock.
C10_LockRefundRestores ==
    [][\A c \in Callers, d \in ids, amt \in PositiveAmounts :
          ( /\ lastLock.did = d /\ lastLock.amt = amt
            /\ FGe(lastLock.available, Float64(amt))
            /\ FGe(lastLock.locked, FZero)
            /\ ~IsExpired(wallet[d], now)
            /\ ReleaseWalletRefund(c, d, amt) )
          => /\ wallet'[d].available = lastLock.available
             /\ wallet'[d].locked = lastLock.locked]_vars

\* C11: a release that finds locked >= amount sets locked' = locked - amount
\* (stated for a locked balance that is a decimal number of tenths) and
\* leaves available and expires_at unchanged; a release of x that follows a
\* lock of x returns locked to its value before the lock.
C11_ReleaseEffect ==
    [][\A c \in Callers, d \in ids, amt \in PositiveAmounts :
          ( /\ ReleaseHCMatch(wallet[d], amt)
            /\ \/ \E target \in Targets :
                     ReleaseWalletTransfer(c, d, amt, target)
               \/ /\ call[c].pc = "debit_release"
                  /\ call[c].did = d /\ call[c].amt = amt
                  /\ DebitRelease(c) )
          => /\ wallet'[d].available = wallet[d].available
             /\ wallet'[d].expires_at = wallet[d].expires_at
             /\ IsTenths(wallet[d].locked)
                => wallet'[d].locked = Float64(wallet[d].locked[1] - amt)
             /\ (lastLock.did = d /\ lastLock.amt = amt)
                => wallet'[d].locked = lastLock.locked]_vars

\* C12: the version of a TrustScore and of an HCWallet is 1 at creation,
\* grows by exactly one in every step that writes the aggregate (a recorded
\* outcome, a committed inheritance write, lock, release, refund or credit)
\* and is unchanged by every other step: reads, rejections and queries that
\* match no row.
C12_VersionCounts ==
    [][/\ \A d \in ids' \ ids :
             trust'[d].version = 1 /\ wallet'[d].version = 1
       /\ \A d \in ids :
             /\ wallet'[d].version =
                   IF wallet'[d] = wallet[d] THEN wallet[d].version
                   ELSE wallet[d].version + 1
             /\ trust'[d].version =
                   IF trust'[d] = trust[d] THEN trust[d].version
                   ELSE trust[d].version + 1
       /\ recorded' = recorded + 1
          => \E d \in ids : trust'[d].version = trust[d].version + 1
       /\ \A c \in Callers :
             /\ (call[c].pc = "inherit_write" /\ call'[c].pc = "idle")
                => LET d == call[c].did
                   IN  trust'[d].version = trust[d].version +
                          (IF call[c].childTrust.version = trust[d].version
                           THEN 1 ELSE 0)
             /\ (call[c].pc = "lock_write" /\ call'[c].pc # "lock_write")
                => LET d == call[c].did
                   IN  wallet'[d].version = wallet[d].version +
                          (IF /\ call[c].version = wallet[d].version
                              /\ FGe(wallet[d].available,
                                     Float64(call[c].amt))
                              /\ ~IsExpired(wallet[d], now)
                           THEN 1 ELSE 0)]_vars

\* C12, its case: a wallet written twice, its version at 3, and the latest
\* lock on it rejected.
C12_Witness ==
    /\ resp.svc = "insufficient_or_concurrent"
    /\ \E d \in ids : wallet[d].version = 3 /\ trust[d].version = 1

\* the components RecordVerificationOutcome is specified to produce
SpecifiedOutcome(t, passed, latencyMs) ==
    LET v == IF passed
             THEN (IF t.verification + 1 > 400 THEN 400
                   ELSE t.verification + 1)
             ELSE (IF t.verification - 2 < 0 THEN 0 ELSE t.verification - 2)
        s == IF latencyMs <= 2000
             THEN (IF t.sla + 1 > 200 THEN 200 ELSE t.sla + 1)
             ELSE (IF t.sla - 1 < 0 THEN 0 ELSE t.sla - 1)
    IN  [t EXCEPT !.verified_outcomes = @ + 1,
                  !.version = @ + 1,
                  !.verification = v,
                  !.sla = s,
                  !.score = v + s + t.network - t.dispute_penalty]

\* C13: RecordVerificationOutcome on a TrustScore with verification in
\* 0..400 and sla in 0..200 adds one to verified_outcomes and to version,
\* sets verification to min(400, v + 1) if passed and to max(0, v - 2) if not,
\* sla to min(200, s + 1) if latency_ms <= 2000 and to max(0, s - 1) if not,
\* leaves dispute_penalty and network, and recomputes the score.
C13_RecordOutcomeEffect ==
    [][\A c \in Callers, d \in ids, passed \in BOOLEAN,
          latencyMs \in {0, SLATargetMs + 1} :
          ( /\ trust[d].verification \in 0..400
            /\ trust[d].sla \in 0..200
            /\ RecordVerificationOutcome(c, d, passed, latencyMs) )
          => trust'[d] = SpecifiedOutcome(trust[d], passed, latencyMs)]_vars

\* C14: once CreateIdentity with a parent that has a trust score has
\* returned, the score of the child is in 100..300 (0.10 <= tau <= 0.30):
\* stated for the state in which the creating handler returns.
C14_ChildTauBounded ==
    [][\A c \in Callers :
          ( /\ call[c].pc \in {"inherit_parent", "inherit_child",
                                "inherit_write"}
            /\ call'[c].pc = "idle"
            /\ call[c].parentDid \in ids )
          => /\ trust'[call[c].did].score >= 100
             /\ trust'[call[c].did].score <= 300]_vars

\* round(max(0.30 * score, 100)): the integer nearest to inherited_tau * 1000
NearestInheritedScore(score) ==
    LET nearest == (3 * score + 5) \div 10
    IN  IF nearest < 100 THEN 100 ELSE nearest

\* C15: an inheritance write that commits, for a parent score in 0..1000,
\* sets the child's score to round(max(0.30 * parent score, 100)), the
\* child's verification and network to 0.30 times the parent's (their integer
\* part), and leaves the child's dispute_penalty and sla as they were read.
C15_InheritedValues ==
    [][\A c \in Callers :
          ( /\ call[c].pc = "inherit_write"
            /\ call[c].parentTrust.score \in 0..MaxScore
            /\ call[c].childTrust.version = trust[call[c].did].version
            /\ InheritWrite(c) )
          => LET d == call[c].did
                 p == call[c].parentTrust
             IN  /\ trust'[d].score = NearestInheritedScore(p.score)
                 /\ trust'[d].verification = (3 * p.verification) \div 10
                 /\ trust'[d].network = (3 * p.network) \div 10
                 /\ trust'[d].dispute_penalty = call[c].childTrust.dispute_penalty
                 /\ trust'[d].sla = call[c].childTrust.sla]_vars

\* C16: CreateIdentity with a parent_did returns the new identity with
\* success, its Identity, TrustScore and HCWallet persisted, also when the
\* inheritance fails (no parent trust score, or a version conflict on the
\* child's trust score): the failure undoes and changes nothing.
C16_InheritanceFailureNotFatal ==
    [][\A c \in Callers :
          ( /\ call[c].pc \in {"inherit_parent", "inherit_child",
                                "inherit_write"}
            /\ call'[c].pc = "idle" )
          => /\ resp'.code = "OK"
             /\ ids' = ids /\ call[c].did \in ids'
             /\ DOMAIN trust' = ids' /\ DOMAIN wallet' = ids'
             /\ wallet' = wallet /\ parent' = parent
             /\ resp'.svc \in {"inherit_not_found", "inherit_conflict"}
                => trust' = trust]_vars

\* C16, its case: a creation has returned with success after its inheritance
\* write was rejected for the version, and the child is stored with the
\* default score.
C16_Witness ==
    /\ resp = [svc |-> "inherit_conflict", code |-> "OK"]
    /\ \E d \in ids : /\ parent[d] \in ids
                      /\ d \in DOMAIN wallet
                      /\ trust[d].verified_outcomes = 1
                      /\ trust[d].network = DefaultTrust.network

\* C17: while a wallet's expires_at has passed, every lock on it is rejected
\* as expired and writes nothing, also when available covers the amount; a
\* refund or a release of a positive amount that locked covers is still
\* applied and answered with success; and a step in which time passes changes
\* no wallet.
C17_ExpiredWallet ==
    [][/\ now' # now => wallet' = wallet
       /\ \A c \in Callers, d \in ids :
             now > wallet[d].expires_at =>
               /\ \A amt \in AmountTenths :
                     (LockWallet(c, d, amt) \/ DebitWallet(c, d, amt))
                     => /\ wallet' = wallet
                        /\ resp' = [svc |-> "wallet_expired",
                                    code |-> "FailedPrecondition"]
                        /\ call'[c].pc = "idle"
               /\ (call[c].pc = "lock_write" /\ call[c].did = d
                      /\ LockHCWrite(c))
                  => /\ wallet' = wallet
                     /\ resp'.code = "FailedPrecondition"
               /\ \A amt \in PositiveAmounts :
                     FGe(wallet[d].locked, Float64(amt)) =>
                       /\ ReleaseWalletRefund(c, d, amt)
                          => /\ resp'.code = "OK"
                             /\ FLt(wallet'[d].locked, wallet[d].locked)
                             /\ FLt(wallet[d].available, wallet'[d].available)
                             /\ wallet'[d].expires_at = wallet[d].expires_at
                       /\ (\E target \in Targets :
                              ReleaseWalletTransfer(c, d, amt, target))
                          => /\ FLt(wallet'[d].locked, wallet[d].locked)
                             /\ wallet'[d].available = wallet[d].available
                             /\ wallet'[d].expires_at = wallet[d].expires_at]_vars

\* C17, its case: a lock on an expired wallet has just been rejected although
\* available covers its amount, and a refund of the locked amount is still
\* possible.
C17_Witness ==
    /\ resp.svc = "wallet_expired"
    /\ \E d \in ids : /\ now > wallet[d].expires_at
                      /\ FGe(wallet[d].available, Float64(2))
                      /\ FGe(wallet[d].locked, Float64(2))
                      /\ ENABLED ReleaseWalletRefund(1, d, 2)

\* C18: no step decreases a wallet's expires_at; a credit sets expires_at to
\* the later of its current value and now + 30 days, adds the amount to
\* available (stated for an available balance that is a decimal number of
\* tenths) and leaves locked; every other step leaves expires_at unchanged.
C18_ExpiryRollsForward ==
    [][\A d \in ids :
          LET w == wallet[d]
              rolled == IF w.expires_at < now + ExpiryDays
                        THEN now + ExpiryDays ELSE w.expires_at
              credited(amt) ==
                  /\ wallet'[d].expires_at = rolled
                  /\ wallet'[d].locked = w.locked
                  /\ IsTenths(w.available)
                     => wallet'[d].available = Float64(w.available[1] + amt)
          IN  /\ wallet'[d].expires_at >= w.expires_at
              /\ \A c \in Callers :
                    /\ \A amt \in PositiveAmounts :
                          CreditWallet(c, d, amt) => credited(amt)
                    /\ ( /\ call[c].pc = "transfer_credit"
                         /\ call[c].target = d
                         /\ TransferCredit(c) )
                       => credited(call[c].amt)
              /\ (\A c \in Callers :
                    /\ ~(call[c].pc = "transfer_credit" /\ TransferCredit(c))
                    /\ \A amt \in PositiveAmounts : ~CreditWallet(c, d, amt))
                 => wallet'[d].expires_at = w.expires_at]_vars

\* the part of C18 about expires_at alone: it never decreases, and only a
\* step that changes available and leaves locked changes it, to now + 30 days
C18_ExpiryNeverDecreases ==
    [][\A d \in ids :
          /\ wallet'[d].expires_at >= wallet[d].expires_at
          /\ wallet'[d].expires_at # wallet[d].expires_at
             => /\ wallet'[d].expires_at = now + ExpiryDays
                /\ wallet'[d].available # wallet[d].available
                /\ wallet'[d].locked = wallet[d].locked]_vars

\* C19: a lock rejected only because the stored version differs from the one
\* read (available covers the amount and the wallet has not expired) is
\* answered with another error kind than the one given to a lock rejected for
\* an insufficient balance or an expired wallet (FailedPrecondition) or for an
\* invalid argument (InvalidArgument).
C19_ConflictKindDistinct ==
    [][\A c \in Callers :
          ( /\ call[c].pc = "lock_write"
            /\ call[c].version # wallet[call[c].did].version
            /\ FGe(wallet[call[c].did].available, Float64(call[c].amt))
            /\ wallet[call[c].did].expires_at > now
            /\ LockHCWrite(c) )
          => /\ wallet' = wallet
             /\ resp'.code \notin {"OK", "FailedPrecondition",
                                   "InvalidArgument"}]_vars

\* C20: a ReleaseWallet with a target and a positive amount answers OK only
\* when its credit has been applied, that is when the target exists and its
\* available balance has increased (half of "both the release and the credit
\* have been applied").
C20_SuccessMeansCredited ==
    [][\A c \in Callers :
          ( /\ call[c].pc = "transfer_credit"
            /\ call[c].amt > 0
            /\ call'[c].pc = "idle"
            /\ resp'.code = "OK" )
          => /\ call[c].target \in ids
             /\ FLt(wallet[call[c].target].available,
                    wallet'[call[c].target].available)]_vars

\* C21: in every state each identity has its TrustScore, its HCWallet and its
\* parent entry, and the step that creates an identity creates it alone, with
\* the TrustScore {500, 200, 0, 100, 200, 0 outcomes, version 1} and the
\* HCWallet {available 0, locked 0, version 1, expires_at = now + 30 days},
\* and changes no other identity's records.
C21_CreationAtomic ==
    /\ [](DOMAIN trust = ids /\ DOMAIN wallet = ids /\ DOMAIN parent = ids)
    /\ [][/\ ids \subseteq ids'
          /\ Cardinality(ids' \ ids) <= 1
          /\ \A d \in ids' \ ids :
                /\ trust'[d] = [score |-> 500, verification |-> 200,
                                dispute_penalty |-> 0, sla |-> 100,
                                network |-> 200, verified_outcomes |-> 0,
                                version |-> 1]
                /\ wallet'[d] = [available |-> <<0, 0>>, locked |-> <<0, 0>>,
                                 expires_at |-> now + 30, version |-> 1]
                /\ \A e \in ids : /\ trust'[e] = trust[e]
                                  /\ wallet'[e] = wallet[e]
                                  /\ parent'[e] = parent[e]]_vars

\* C21, its case: an identity created with a parent after time has passed is
\* stored with its default records while its inheritance has not yet run.
C21_Witness ==
    /\ now > 0
    /\ \E c \in Callers :
          /\ call[c].pc = "inherit_parent"
          /\ call[c].did \in ids
          /\ parent[call[c].did] \in ids
          /\ trust[call[c].did].score = 500
          /\ wallet[call[c].did].expires_at = now + 30

RECURSIVE RootOf(_)
RootOf(d) == IF parent[d] = NoParent THEN d ELSE RootOf(parent[d])

\* the number of SPAWNED edges between d and its root
RECURSIVE DepthOf(_)
DepthOf(d) == IF parent[d] = NoParent THEN 0 ELSE 1 + DepthOf(parent[d])

\* C23: GetAgentLineage(did) of an existing identity returns root_did = the
\* ancestor without parent reached by walking the SPAWNED edges backward,
\* depth = the number of edges walked (0 and root_did = did for a root),
\* parent_did = the immediate parent (absent for a root) and the DIDs from
\* the root down to the queried identity, each the parent of the next; for
\* an unknown DID it fails with not_found.
C23_LineageOfIdentity ==
    [][\A c \in Callers, d \in Targets :
          GetAgentLineage(c, d) =>
            IF d \in ids
            THEN LET l == resp'.lineage
                 IN  /\ resp'.code = "OK"
                     /\ l.agent_did = d
                     /\ l.root_did = RootOf(d)
                     /\ parent[l.root_did] = NoParent
                     /\ l.depth = DepthOf(d)
                     /\ l.parent_did = parent[d]
                     /\ Len(l.ancestors) = l.depth + 1
                     /\ l.ancestors[1] = l.root_did
                     /\ l.ancestors[Len(l.ancestors)] = d
                     /\ \A i \in 1..(Len(l.ancestors) - 1) :
                           parent[l.ancestors[i + 1]] = l.ancestors[i]
            ELSE /\ resp'.code = "NotFound"
                 /\ resp'.svc = "not_found"]_vars

\* C23, its case: the lineage of an identity whose parent is not its root has
\* been returned.
C23_Witness ==
    /\ resp.svc = "ok"
    /\ resp.view = <<>>
    /\ resp.lineage.depth >= 2
    /\ resp.lineage.parent_did # resp.lineage.root_did
    /\ resp.lineage.ancestors[1] = resp.lineage.root_did

\* the ancestor of d at distance k: d itself for k = 0, its parent for k = 1
RECURSIVE AncestorAt(_, _)
AncestorAt(d, k) == IF k = 0 THEN d ELSE AncestorAt(parent[d], k - 1)

\* C24: the view ResolveLineage(did) returns pairs the queried identity with
\* factor 1.0 (exponent 0) and its ancestor at distance k with factor 0.30^k
\* (exponent k), and holds the queried identity and each ancestor exactly
\* once.
C24_FactorByDistance ==
    [][\A c \in Callers, d \in ids :
          ResolveLineage(c, d) =>
            LET view == resp'.view
            IN  /\ Len(view) = DepthOf(d) + 1
                /\ \A k \in 0..DepthOf(d) :
                      \E i \in 1..Len(view) :
                         /\ view[i].did = AncestorAt(d, k)
                         /\ view[i].exponent = k
                /\ \A i, j \in 1..Len(view) :
                      view[i].did = view[j].did => i = j]_vars

\* a backward walk from d over the SPAWNED edges reaches an identity without
\* parent within n edges
RECURSIVE ReachesRoot(_, _)
ReachesRoot(d, n) ==
    IF parent[d] = NoParent THEN TRUE
    ELSE IF n = 0 \/ parent[d] \notin ids THEN FALSE
    ELSE ReachesRoot(parent[d], n - 1)

\* C25: the SPAWNED edges form a forest. In every state the parent of an
\* identity, if any, is another existing identity and every backward walk
\* ends at a root; the edge of an identity is created in the step that
\* creates the identity, from an identity that existed before the step; and
\* no step changes the parent of an existing identity.
C25_SpawnedIsForest ==
    /\ [](\A d \in ids :
            /\ parent[d] = NoParent \/ parent[d] \in ids \ {d}
            /\ ReachesRoot(d, Cardinality(ids)))
    /\ [][/\ \A d \in ids : d \in ids' /\ parent'[d] = parent[d]
          /\ \A d \in ids' \ ids :
                parent'[d] = NoParent \/ parent'[d] \in ids]_vars

\* C25, its case: an identity spawned from an existing parent has finished its
\* creation, and its edge is in place.
C25_Witness ==
    \E d \in ids :
       /\ parent[d] \in ids
       /\ parent[parent[d]] = NoParent
       /\ trust[d].score = 150
       /\ \A c \in Callers : call[c].pc = "idle"

\* C26: a DebitWallet that answers OK has taken its amount out of the wallet:
\* its release step, which ends the debit, reduces locked (the amount its
\* lock step moved there) and leaves available, whatever other requests did
\* to the wallet in between.
C26_DebitTakesAmount ==
    [][\A c \in Callers :
          ( /\ call[c].pc = "debit_release"
            /\ call'[c].pc = "idle"
            /\ resp'.code = "OK" )
          => /\ FLt(wallet'[call[c].did].locked, wallet[call[c].did].locked)
             /\ wallet'[call[c].did].available
                   = wallet[call[c].did].available]_vars

\* C27: while no CreditWallet is requested, lock, release and debit requests
\* of positive amounts never raise the total of a wallet: available + locked
\* stays at most the 1.1 the wallet held at the start (stated with a margin
\* of less than a tenth, above any rounding of the additions).
C27_NoCreditNoIncrease ==
    \A d \in ids :
        FLt(FAdd(wallet[d].available, wallet[d].locked), Float64(12))

\* C28: on a wallet under concurrent requests, available and locked are what
\* the service calls that answered with success add up to, from a wallet of
\* available 0 and locked 0 (compared in tenths of HC): no answered effect is
\* missing from the balances.
C28_NoLostUpdate ==
    ledger.on =>
        \A d \in ids : /\ wallet[d].available[1] = ledger.available[d]
                        /\ wallet[d].locked[1] = ledger.locked[d]

\* C29: an inheritance write that comes after a RecordVerificationOutcome
\* committed on the child since the inheritance read the child's TrustScore
\* is rejected for the version and leaves every TrustScore as it was; and no
\* step of a creation with inheritance or of RecordVerificationOutcome lowers
\* the verified_outcomes of a TrustScore.
C29_OutcomeSurvivesInheritance ==
    /\ [][\A c \in Callers :
             ( /\ call[c].pc = "inherit_write"
               /\ call'[c].pc = "idle"
               /\ trust[call[c].did].verified_outcomes
                      > call[c].childTrust.verified_outcomes )
             => /\ trust' = trust
                /\ resp'.svc = "inherit_conflict"]_vars
    /\ [][\A d \in ids :
             trust'[d].verified_outcomes >= trust[d].verified_outcomes]_vars

\* C29, its case: an inheritance write was rejected and the child keeps the
\* two outcomes recorded on it while the creation was in progress.
C29_Witness ==
    /\ resp.svc = "inherit_conflict"
    /\ \E d \in ids : /\ parent[d] \in ids
                      /\ trust[d].verified_outcomes = MaxOutcomes
                      /\ trust[d].version = MaxOutcomes + 1

\* the identities whose wallet, or whose TrustScore, a step changes
WalletsChanged == {d \in ids : wallet'[d] # wallet[d]}

TrustsChanged == {d \in ids : trust'[d] # trust[d]}

\* C30: a step of a wallet operation on a DID changes no wallet but that
\* DID's (the credit of a release with target: no wallet but the target's)
\* and no TrustScore; RecordVerificationOutcome on a DID changes no wallet
\* and no TrustScore but that DID's; and the steps of a creation, its trust
\* inheritance included, change no wallet and no TrustScore of an identity
\* that existed, the parent's among them, apart from the child's TrustScore.
C30_OnlyNamedAggregate ==
    [][ /\ \A d \in Targets, amt \in {FrameAmount} :
              ( /\ call[2].pc = "idle"
                /\ wallet' # wallet \/ trust' # trust
                /\ \/ CreditWallet(2, d, amt)
                   \/ LockWallet(2, d, amt)
                   \/ DebitWallet(2, d, amt)
                   \/ ReleaseWalletRefund(2, d, amt)
                   \/ \E target \in Targets :
                         ReleaseWalletTransfer(2, d, amt, target) )
              => WalletsChanged \subseteq {d} /\ trust' = trust
        /\ \A c \in Callers :
              ( /\ call[c].pc \in {"lock_write", "debit_release"}
                /\ call'[c] # call[c] )
              => WalletsChanged \subseteq {call[c].did} /\ trust' = trust
        /\ \A c \in Callers :
              (call[c].pc = "transfer_credit" /\ call'[c] # call[c])
              => WalletsChanged \subseteq {call[c].target} /\ trust' = trust
        /\ \A d \in Targets, passed \in BOOLEAN :
              ( /\ call[2].pc = "idle"
                /\ wallet' # wallet \/ trust' # trust
                /\ RecordVerificationOutcome(2, d, passed, 0) )
              => wallet' = wallet /\ TrustsChanged \subseteq {d}
        /\ ids' # ids => WalletsChanged = {} /\ TrustsChanged = {}
        /\ \A c \in Callers :
              ( /\ call[c].pc \in {"inherit_parent", "inherit_child",
                                    "inherit_write"}
                /\ call'[c] # call[c] )
              => /\ wallet' = wallet
                 /\ TrustsChanged \subseteq {call[c].did}
                 /\ call[c].parentDid # call[c].did ]_vars

\* C30, its case: a second identity was spawned from the first, whose
\* TrustScore holds a recorded outcome and whose wallet holds a balance, and
\* the child took its inherited score while its own wallet was written too.
C30_Witness ==
    /\ ids = {1, 2}
    /\ parent[2] = 1
    /\ trust[1].verified_outcomes = 1
    /\ trust[2].version = 2
    /\ trust[2].verified_outcomes = 0
    /\ wallet[1].version > 1
    /\ wallet[2].version > 1

====
